---- MODULE Spec2Model ----
(***************************************************************************)
(* Circle FFT over F_31 (circle_fft.ipynb): field elements, circle points, *)
(* subgroups and cosets, the forward and inverse transform and the basis   *)
(* re-evaluation, as operators; the notebook's calls as actions.           *)
(*                                                                         *)
(* A FieldElement is its canonical value, an integer in 0..MOD-1.  A       *)
(* CirclePoint is a record [x, y].  A Python list is a sequence (index i   *)
(* of the list is index i+1 of the sequence).  A call that can raise and   *)
(* returns a list returns a record [err, val]: err = NoError and val the   *)
(* list, or err the exception and val = <<>>.  A call that returns a point *)
(* returns the point or the exception record [exc |-> ...].                *)
(***************************************************************************)
EXTENDS Integers, Sequences, FiniteSets, TLC

MOD == 31

(* -------- bounds of the model -------- *)
MaxLogN == 5       \* BuildDomain asks for subgroups of size 2^0 .. 2^MaxLogN
MaxScale == 1      \* evaluation vectors: multiples 0..MaxScale of [2^i mod p]
MaxSpike == 1      \* ... plus a spike 0..MaxSpike at one index
MaxPairLog == 3    \* SpecSize: paired domains of length 2^k, k in 1..MaxPairLog
MaxLen == 6        \* SpecSize: vector and domain lengths 0..MaxLen
MaxExp == 64       \* SpecPoint: exponents -1..MaxExp of power()

(* -------- exceptions -------- *)
NoError == "none"
ZeroDivisionError == "ZeroDivisionError: Cannot invert zero"
FftSizeError == "ValueError: evaluations and circle_domain must have equal power-of-2 length"
IfftSizeError == "ValueError: coefficients and circle_domain must have equal power-of-2 length"
SubgroupSizeError == "ValueError: Cannot generate subgroup of size 2^logn"
NegativeExponentError == "ValueError: Negative exponents are not supported"
AssertionError == "AssertionError"
RecursionError == "RecursionError: maximum recursion depth exceeded"
PointNotOnCircle == [exc |-> "ValueError: Point does not lie on the circle"]
InvalidArgument == [exc |-> SubgroupSizeError]
NegativeExponent == [exc |-> NegativeExponentError]

Ok(v) == [err |-> NoError, val |-> v]
Raise(e) == [err |-> e, val |-> <<>>]
NoResult == Raise("not called")
NoPoint == [exc |-> "not called"]

(* -------- Python built-ins the code uses -------- *)
Reversed(s) == [i \in 1..Len(s) |-> s[Len(s) + 1 - i]]

\* a & b for a >= 0 (two's complement b: -1 % 2 = 1 and -1 \div 2 = -1)
RECURSIVE BitAnd(_, _)
BitAnd(a, b) ==
    IF a = 0 THEN 0
    ELSE (a % 2) * (b % 2) + 2 * BitAnd(a \div 2, b \div 2)

\* 1 << k
Shl1(k) == 2 ^ k

\* pow(base, exponent, modulus), exponent >= 0
RECURSIVE ModPow(_, _, _)
ModPow(base, exponent, modulus) ==
    IF exponent = 0 THEN 1 % modulus
    ELSE LET h == ModPow(base, exponent \div 2, modulus)
             hh == (h * h) % modulus
         IN  IF exponent % 2 = 1 THEN (hh * base) % modulus ELSE hh

\* mutant of Interleave: zip(b, a), the odd part first
Interleave_odd_first(a, b) ==
    [i \in 1..(2 * Len(a)) |-> IF i % 2 = 1 THEN b[(i + 1) \div 2] ELSE a[i \div 2]]
\* zip(a, b) flattened: a[0], b[0], a[1], b[1], ...
Interleave(a, b) ==
    [i \in 1..(2 * Len(a)) |-> IF i % 2 = 1 THEN a[(i + 1) \div 2] ELSE b[i \div 2]]

\* mutant of OddIndexed: seq[::2] written for seq[1::2]
OddIndexed_from_zero(s) == [i \in 1..(Len(s) \div 2) |-> s[2 * i - 1]]
\* seq[::2] and seq[1::2]
EvenIndexed(s) == [i \in 1..((Len(s) + 1) \div 2) |-> s[2 * i - 1]]
OddIndexed(s) == [i \in 1..(Len(s) \div 2) |-> s[2 * i]]

SeqToSet(s) == {s[i] : i \in DOMAIN s}

(* -------- class FieldElement -------- *)
FieldElement(value) == value % MOD
FieldElement_add(self, other) == FieldElement((self + other) % MOD)
FieldElement_sub(self, other) == FieldElement((self - other) % MOD)
FieldElement_mul(self, other) == FieldElement((self * other) % MOD)
FieldElement_neg(self) == FieldElement((0 - self) % MOD)
FieldElement_square(self) == FieldElement_mul(self, self)
FieldElement_double(self) == FieldElement_add(self, self)
FieldElement_one == FieldElement(1)
FieldElement_zero == FieldElement(0)

\* mutant of InvRaises: inv() without the zero check
InvRaises_never(self) == FALSE
\* inv(): raises ZeroDivisionError on zero (InvRaises), else Fermat
InvRaises(self) == self = 0
\* mutant of FieldElement_inv: exponent MOD - 1
FieldElement_inv_fermat_slip(self) == FieldElement(ModPow(self, MOD - 1, MOD))
FieldElement_inv(self) == FieldElement(ModPow(self, MOD - 2, MOD))
\* self / other, defined where other.inv() does not raise
FieldElement_truediv(self, other) == FieldElement_mul(self, FieldElement_inv(other))

\* a.inv() and a / b as calls: the value, or the exception inv() raises
FieldElement_inv_call(self) ==
    IF InvRaises(self) THEN Raise(ZeroDivisionError) ELSE Ok(FieldElement_inv(self))
FieldElement_truediv_call(self, other) ==
    LET r == FieldElement_inv_call(other)
    IN  IF r.err # NoError THEN r ELSE Ok(FieldElement_mul(self, r.val))
\* __pow__: square-and-multiply, exponent >= 0
RECURSIVE FieldElement_pow_loop(_, _, _)
FieldElement_pow_loop(result, base, exponent) ==
    IF exponent > 0
    THEN FieldElement_pow_loop(
             IF exponent % 2 = 1 THEN FieldElement_mul(result, base) ELSE result,
             FieldElement_square(base), exponent \div 2)
    ELSE result
FieldElement_pow(self, exponent) == FieldElement_pow_loop(FieldElement(1), self, exponent)

(* -------- class CirclePoint -------- *)
IsPoint(p) == DOMAIN p = {"x", "y"}

\* mutant of CirclePoint: a constructor that does not validate
CirclePoint_unchecked(x, y) == [x |-> x, y |-> y]
CirclePoint(x, y) ==
    IF FieldElement_add(FieldElement_square(x), FieldElement_square(y)) # 1
    THEN PointNotOnCircle
    ELSE [x |-> x, y |-> y]

CirclePoint_identity == CirclePoint(FieldElement_one, FieldElement_zero)

CirclePoint_add(self, other) ==
    LET nx == FieldElement_sub(FieldElement_mul(self.x, other.x),
                               FieldElement_mul(self.y, other.y))
        ny == FieldElement_add(FieldElement_mul(self.x, other.y),
                               FieldElement_mul(other.x, self.y))
    IN  CirclePoint(nx, ny)

CirclePoint_double(self) ==
    LET xx == FieldElement_sub(FieldElement_double(FieldElement_square(self.x)),
                               FieldElement_one)
        yy == FieldElement_mul(FieldElement_double(self.x), self.y)
    IN  CirclePoint(xx, yy)

CirclePoint_inverse(self) == CirclePoint(self.x, FieldElement_neg(self.y))

\* the while loop of power(): an exception of add/double ends the loop
RECURSIVE CirclePoint_power_loop(_, _, _)
CirclePoint_power_loop(out, base, tmp) ==
    IF tmp > 0
    THEN LET out1 == IF tmp % 2 = 1 THEN CirclePoint_add(out, base) ELSE out
         IN  IF ~IsPoint(out1) THEN out1
             ELSE LET base1 == CirclePoint_double(base)
                  IN  IF ~IsPoint(base1) THEN base1
                      ELSE CirclePoint_power_loop(out1, base1, tmp \div 2)
    ELSE out

\* mutant of CirclePoint_power: out starts at self, not at the identity
CirclePoint_power_from_self(self, n) ==
    IF n < 0 THEN NegativeExponent
    ELSE CirclePoint_power_loop(CirclePoint(self.x, self.y), CirclePoint(self.x, self.y), n)
CirclePoint_power(self, n) ==
    IF n < 0 THEN NegativeExponent
    ELSE CirclePoint_power_loop(CirclePoint_identity, CirclePoint(self.x, self.y), n)

\* every (x, y) for which the constructor succeeds
CirclePoints ==
    {p \in [x : 0..(MOD - 1), y : 0..(MOD - 1)] : CirclePoint(p.x, p.y) = p}

\* mutant of find_generator: the scan starts at range(0, MOD)
find_generator_from_zero ==
    LET hits == {c \in (0..(MOD - 1)) \X (0..(MOD - 1)) :
                    (c[1] * c[1] + c[2] * c[2]) % MOD = 1}
        xx == CHOOSE a \in {c[1] : c \in hits} : \A b \in {c[1] : c \in hits} : a <= b
        yy == CHOOSE a \in {c[2] : c \in {d \in hits : d[1] = xx}} :
                  \A b \in {c[2] : c \in {d \in hits : d[1] = xx}} : a <= b
    IN  CirclePoint(FieldElement(xx), FieldElement(yy))
find_generator ==
    LET hits == {c \in (1..(MOD - 1)) \X (1..(MOD - 1)) :
                    (c[1] * c[1] + c[2] * c[2]) % MOD = 1}
    IN  IF hits = {} THEN CirclePoint_identity
        ELSE LET xx == CHOOSE a \in {c[1] : c \in hits} :
                           \A b \in {c[1] : c \in hits} : a <= b
                 yy == CHOOSE a \in {c[2] : c \in {d \in hits : d[1] = xx}} :
                           \A b \in {c[2] : c \in {d \in hits : d[1] = xx}} : a <= b
             IN  CirclePoint(FieldElement(xx), FieldElement(yy))

\* mutant of get_nth_generator: step = MOD // (1 << logn)
get_nth_generator_floor(logn) ==
    IF (MOD + 1) % Shl1(logn) # 0 THEN InvalidArgument
    ELSE LET step == MOD \div Shl1(logn)
             g == find_generator
         IN  CirclePoint_power(g, step)
get_nth_generator(logn) ==
    IF (MOD + 1) % Shl1(logn) # 0 THEN InvalidArgument
    ELSE LET step == (MOD + 1) \div Shl1(logn)
             g == find_generator
         IN  CirclePoint_power(g, step)

(* -------- domain builder -------- *)
\* the list comprehension of generate_subgroup: entry i is p after i adds
RECURSIVE subgroup_entries(_, _, _, _)
subgroup_entries(p, g_k, i, size) ==
    IF i = size THEN <<>>
    ELSE LET q == IF i # 0 THEN CirclePoint_add(p, g_k) ELSE p
         IN  <<q>> \o subgroup_entries(q, g_k, i + 1, size)

generate_subgroup(k) ==
    LET g_k == get_nth_generator(k)
    IN  IF ~IsPoint(g_k) THEN Raise(g_k.exc)
        ELSE Ok(subgroup_entries(CirclePoint_identity, g_k, 0, Shl1(k)))

\* mutant of generate_twin_coset: the second half built from Q, not Q_inv
generate_twin_coset_same_Q(Qp, G_n_minus_1) ==
    LET coset_Q == [i \in 1..Len(G_n_minus_1) |-> CirclePoint_add(Qp, G_n_minus_1[i])]
    IN  coset_Q \o coset_Q
generate_twin_coset(Qp, G_n_minus_1) ==
    LET Q_inv == CirclePoint_inverse(Qp)
        coset_Q == [i \in 1..Len(G_n_minus_1) |-> CirclePoint_add(Qp, G_n_minus_1[i])]
        coset_Q_inv == [i \in 1..Len(G_n_minus_1) |-> CirclePoint_add(Q_inv, G_n_minus_1[i])]
    IN  coset_Q \o coset_Q_inv

\* mutant of generate_standard_position_coset: translates by Q.inverse()
generate_standard_position_coset_inv(Qp, G_n) ==
    [i \in 1..Len(G_n) |-> CirclePoint_add(CirclePoint_inverse(Qp), G_n[i])]
generate_standard_position_coset(Qp, G_n) ==
    [i \in 1..Len(G_n) |-> CirclePoint_add(Qp, G_n[i])]

\* the dict of halve_..: its values after inserting new_points[1..i], in the
\* order of first insertion (a later equal key replaces the value in place)
RECURSIVE unique_dict_values(_, _)
unique_dict_values(new_points, i) ==
    IF i = 0 THEN <<>>
    ELSE LET prev == unique_dict_values(new_points, i - 1)
             pt == new_points[i]
         IN  IF \E j \in 1..Len(prev) : prev[j].x = pt.x /\ prev[j].y = pt.y
             THEN [j \in 1..Len(prev) |->
                      IF prev[j].x = pt.x /\ prev[j].y = pt.y THEN pt ELSE prev[j]]
             ELSE Append(prev, pt)

\* (p.x.value, p.y.value) < (q.x.value, q.y.value), as Python compares tuples
KeyLess(p, q) == p.x < q.x \/ (p.x = q.x /\ p.y < q.y)

\* unique.sort(key=lambda p: (p.x.value, p.y.value)): a stable ascending sort
RECURSIVE sort_by_key(_)
sort_by_key(unique) ==
    IF Len(unique) <= 1 THEN unique
    ELSE LET rest == sort_by_key(Tail(unique))
             h == Head(unique)
             k == Cardinality({j \in 1..Len(rest) : KeyLess(rest[j], h)})
         IN  SubSeq(rest, 1, k) \o <<h>> \o SubSeq(rest, k + 1, Len(rest))

\* mutant of halve_..: the images sorted without the dict that removes duplicates
halve_standard_position_coset_by_squaring_map_no_dict(standard_coset) ==
    sort_by_key([i \in 1..Len(standard_coset) |-> CirclePoint_double(standard_coset[i])])

halve_standard_position_coset_by_squaring_map(standard_coset) ==
    LET new_points == [i \in 1..Len(standard_coset) |->
                          CirclePoint_double(standard_coset[i])]
        unique == unique_dict_values(new_points, Len(new_points))
    IN  sort_by_key(unique)

(* -------- transform engine: circle_fft -------- *)
\* Layers below the top one.  On an empty list half = 0, every list built is
\* empty and the function calls itself on ([], []) again: n == 1 is never
\* reached and Python ends the call with RecursionError.
RECURSIVE _fft_squaring_map_x(_, _)
_fft_squaring_map_x(values, x_domain) ==
    LET n == Len(values) IN
    IF n = 1 THEN Ok(<<values[1]>>)
    ELSE IF n = 0 THEN Raise(RecursionError)
    ELSE
    LET half == n \div 2
        left == SubSeq(values, 1, half)
        right == Reversed(SubSeq(values, half + 1, n))
        x_factors == SubSeq(x_domain, 1, half)
        two == FieldElement(2)
        f_even_x == [i \in 1..half |->
                        FieldElement_truediv(FieldElement_add(left[i], right[i]), two)]
        f_odd_x == [i \in 1..half |->
                        FieldElement_truediv(FieldElement_sub(left[i], right[i]),
                                             FieldElement_mul(x_factors[i], two))]
        next_x_domain == [i \in 1..half |->
                        FieldElement_sub(FieldElement_double(FieldElement_square(x_domain[i])),
                                         FieldElement_one)]
    IN  IF \E i \in 1..half : InvRaises(FieldElement_mul(x_factors[i], two))
        THEN Raise(ZeroDivisionError)
        ELSE LET coeffs_even == _fft_squaring_map_x(f_even_x, next_x_domain)
             IN  IF coeffs_even.err # NoError THEN coeffs_even
                 ELSE LET coeffs_odd == _fft_squaring_map_x(f_odd_x, next_x_domain)
                      IN  IF coeffs_odd.err # NoError THEN coeffs_odd
                          ELSE Ok(Interleave(coeffs_even.val, coeffs_odd.val))

\* mutant of _fft_quotient_map_y: y_factors taken from circle_domain[half:]
_fft_quotient_map_y_upper_half(values, circle_domain) ==
    LET n == Len(values) IN
    IF n = 1 THEN Ok(<<values[1]>>)
    ELSE
    LET half == n \div 2
        left == SubSeq(values, 1, half)
        right == Reversed(SubSeq(values, half + 1, n))
        y_factors == [i \in 1..half |-> circle_domain[half + i].y]
        two == FieldElement(2)
        f_even_y == [i \in 1..half |->
                        FieldElement_truediv(FieldElement_add(left[i], right[i]), two)]
        f_odd_y == [i \in 1..half |->
                        FieldElement_truediv(FieldElement_sub(left[i], right[i]),
                                             FieldElement_mul(y_factors[i], two))]
        x_domain == [i \in 1..Len(circle_domain) |-> circle_domain[i].x]
        half_x_domain == SubSeq(x_domain, 1, half)
    IN  IF \E i \in 1..half : InvRaises(FieldElement_mul(y_factors[i], two))
        THEN Raise(ZeroDivisionError)
        ELSE LET coeffs_even == _fft_squaring_map_x(f_even_y, half_x_domain)
             IN  IF coeffs_even.err # NoError THEN coeffs_even
                 ELSE LET coeffs_odd == _fft_squaring_map_x(f_odd_y, half_x_domain)
                      IN  IF coeffs_odd.err # NoError THEN coeffs_odd
                          ELSE Ok(Interleave(coeffs_even.val, coeffs_odd.val))
_fft_quotient_map_y(values, circle_domain) ==
    LET n == Len(values) IN
    IF n = 1 THEN Ok(<<values[1]>>)
    ELSE
    LET half == n \div 2
        left == SubSeq(values, 1, half)
        right == Reversed(SubSeq(values, half + 1, n))
        y_factors == [i \in 1..half |-> circle_domain[i].y]
        two == FieldElement(2)
        f_even_y == [i \in 1..half |->
                        FieldElement_truediv(FieldElement_add(left[i], right[i]), two)]
        f_odd_y == [i \in 1..half |->
                        FieldElement_truediv(FieldElement_sub(left[i], right[i]),
                                             FieldElement_mul(y_factors[i], two))]
        x_domain == [i \in 1..Len(circle_domain) |-> circle_domain[i].x]
        half_x_domain == SubSeq(x_domain, 1, half)
    IN  IF \E i \in 1..half : InvRaises(FieldElement_mul(y_factors[i], two))
        THEN Raise(ZeroDivisionError)
        ELSE LET coeffs_even == _fft_squaring_map_x(f_even_y, half_x_domain)
             IN  IF coeffs_even.err # NoError THEN coeffs_even
                 ELSE LET coeffs_odd == _fft_squaring_map_x(f_odd_y, half_x_domain)
                      IN  IF coeffs_odd.err # NoError THEN coeffs_odd
                          ELSE Ok(Interleave(coeffs_even.val, coeffs_odd.val))

circle_fft(evaluations, circle_domain) ==
    IF Len(evaluations) # Len(circle_domain)
       \/ BitAnd(Len(evaluations), Len(evaluations) - 1) # 0
    THEN Raise(FftSizeError)
    ELSE LET arr == [i \in 1..Len(evaluations) |-> FieldElement(evaluations[i])]
         IN  _fft_quotient_map_y(arr, circle_domain)

(* -------- transform engine: circle_ifft -------- *)
\* On an empty list the recursion never reaches n == 1, as in the forward pass.
RECURSIVE _ifft_squaring_map_x(_, _)
_ifft_squaring_map_x(coefficients, x_domain) ==
    LET n == Len(coefficients) IN
    IF n = 1 THEN Ok(<<coefficients[1]>>)
    ELSE IF n = 0 THEN Raise(RecursionError)
    ELSE
    LET half == n \div 2
        coeffs_even == EvenIndexed(coefficients)
        coeffs_odd == OddIndexed(coefficients)
        x_factors == SubSeq(x_domain, 1, half)
        next_x_domain == [i \in 1..half |->
                        FieldElement_sub(FieldElement_double(FieldElement_square(x_domain[i])),
                                         FieldElement_one)]
        f_even_x == _ifft_squaring_map_x(coeffs_even, next_x_domain)
    IN  IF f_even_x.err # NoError THEN f_even_x
        ELSE LET f_odd_x == _ifft_squaring_map_x(coeffs_odd, next_x_domain)
             IN  IF f_odd_x.err # NoError THEN f_odd_x
                 ELSE LET evaluations_left == [i \in 1..half |->
                                FieldElement_add(f_even_x.val[i],
                                    FieldElement_mul(x_factors[i], f_odd_x.val[i]))]
                          evaluations_right == [i \in 1..half |->
                                FieldElement_sub(f_even_x.val[i],
                                    FieldElement_mul(x_factors[i], f_odd_x.val[i]))]
                      IN  Ok(evaluations_left \o Reversed(evaluations_right))

_ifft_quotient_map_y(coefficients, circle_domain) ==
    LET n == Len(coefficients) IN
    IF n = 1 THEN Ok(<<coefficients[1]>>)
    ELSE
    LET half == n \div 2
        coeffs_even == EvenIndexed(coefficients)
        coeffs_odd == OddIndexed(coefficients)
        x_domain == [i \in 1..Len(circle_domain) |-> circle_domain[i].x]
        y_factors == [i \in 1..Len(circle_domain) |-> circle_domain[i].y]
        half_x_domain == SubSeq(x_domain, 1, half)
        f_even_y == _ifft_squaring_map_x(coeffs_even, half_x_domain)
    IN  IF f_even_y.err # NoError THEN f_even_y
        ELSE LET f_odd_y == _ifft_squaring_map_x(coeffs_odd, half_x_domain)
             IN  IF f_odd_y.err # NoError THEN f_odd_y
                 ELSE LET evaluations_left == [i \in 1..half |->
                                FieldElement_add(f_even_y.val[i],
                                    FieldElement_mul(y_factors[i], f_odd_y.val[i]))]
                          evaluations_right == [i \in 1..half |->
                                FieldElement_sub(f_even_y.val[i],
                                    FieldElement_mul(y_factors[i], f_odd_y.val[i]))]
                      IN  Ok(evaluations_left \o Reversed(evaluations_right))

circle_ifft(coefficients, circle_domain) ==
    IF Len(coefficients) # Len(circle_domain)
       \/ BitAnd(Len(coefficients), Len(coefficients) - 1) # 0
    THEN Raise(IfftSizeError)
    ELSE LET arr == [i \in 1..Len(coefficients) |-> FieldElement(coefficients[i])]
         IN  _ifft_quotient_map_y(arr, circle_domain)

(* -------- basis re-evaluation -------- *)
RECURSIVE repeated_vn(_, _)
repeated_vn(x, k) ==
    IF k - 1 <= 0 THEN x
    ELSE LET tmp == repeated_vn(x, k - 1)
         IN  FieldElement_sub(FieldElement_double(FieldElement_square(tmp)), FieldElement_one)

RECURSIVE basis_func_loop(_, _, _, _)
basis_func_loop(pt, b, bitpos, tmp) ==
    IF tmp > 0
    THEN LET b1 == IF bitpos = 0
                   THEN (IF tmp % 2 = 1 THEN FieldElement_mul(b, pt.y) ELSE b)
                   ELSE (IF tmp % 2 = 1
                         THEN FieldElement_mul(b, repeated_vn(pt.x, bitpos)) ELSE b)
         IN  basis_func_loop(pt, b1, bitpos + 1, tmp \div 2)
    ELSE b

basis_func(pt, idx) == basis_func_loop(pt, FieldElement(1), 0, idx)

RECURSIVE check_with_basis_acc(_, _, _)
check_with_basis_acc(arrC, pt, i) ==
    IF i = 0 THEN FieldElement(0)
    ELSE FieldElement_add(check_with_basis_acc(arrC, pt, i - 1),
                          FieldElement_mul(arrC[i], basis_func(pt, i - 1)))

check_with_basis(coefs_, circle_domain) ==
    LET arrC == [i \in 1..Len(coefs_) |-> FieldElement(coefs_[i])]
    IN  [d \in 1..Len(circle_domain) |->
            check_with_basis_acc(arrC, circle_domain[d], Len(arrC))]

(* -------- state -------- *)
VARIABLES
    pc,           \* which call of the notebook ran last
    Q,            \* the coset point in scope (a notebook global)
    logn,         \* k of generate_subgroup(k) for the domain
    G,            \* generate_subgroup(logn)
    Domain,       \* generate_standard_position_coset(Q, G)
    D_twin,       \* generate_twin_coset(Q, generate_subgroup(logn - 1))
    twin_n,       \* n and m of decompose_to_twin_cosets(D, n, m)
    twin_m,
    twin_cosets,  \* its result
    evals,        \* the vector given to circle_fft / circle_ifft
    coefs,        \* circle_fft(evals, Domain)
    final_evals,  \* circle_ifft(coefs, Domain)
    reeval,       \* check_with_basis(coefs, Domain)
    in_x, in_y,   \* arguments of CirclePoint(x, y)
    p1, p2, p3,   \* a constructed point, a second operand, the result of a method
    p_n,          \* n of p1.power(n)
    D_halved,     \* halve_standard_position_coset_by_squaring_map(D)
    Domain2,      \* a second domain given to the same call
    coefs2,       \* circle_fft(evals, Domain2)
    final_evals2, \* circle_ifft(evals, Domain2)
    twin_cosets2, \* decompose_to_twin_cosets(Domain2, n, m)
    gen_k, gen,   \* gen = get_nth_generator(gen_k)
    f_a, f_b,     \* field elements a, b
    f_r           \* the result of a.inv() or a / b

domainVars == <<Q, logn, G, Domain, D_twin, twin_n, twin_m, twin_cosets>>
transformVars == <<evals, coefs, final_evals, reeval>>
pointVars == <<in_x, in_y, p1, p2, p3, p_n>>
otherVars == <<D_halved, Domain2, coefs2, final_evals2, twin_cosets2, gen_k, gen, f_a, f_b, f_r>>
vars == <<pc, domainVars, transformVars, pointVars, otherVars>>

\* mutant of decompose_to_twin_cosets: Q.power(2 * k + 1)
decompose_to_twin_cosets_2k(D, n, m) ==
    IF Len(D) # Shl1(m) THEN Raise(AssertionError)
    ELSE LET G_n_minus_1 == generate_subgroup(n - 1).val
         IN  Ok([k1 \in 1..(Shl1(m) \div Shl1(n)) |->
                    LET Q_k == CirclePoint_power(Q, 2 * (k1 - 1) + 1)
                    IN  generate_twin_coset(Q_k, G_n_minus_1)])
\* mutant of decompose_to_twin_cosets: the coset point is taken from D[0]
decompose_to_twin_cosets_from_D(D, n, m) ==
    IF Len(D) # Shl1(m) THEN Raise(AssertionError)
    ELSE LET G_n_minus_1 == generate_subgroup(n - 1).val
         IN  Ok([k1 \in 1..(Shl1(m) \div Shl1(n)) |->
                    LET Q_k == CirclePoint_power(D[1], 4 * (k1 - 1) + 1)
                    IN  generate_twin_coset(Q_k, G_n_minus_1)])
\* decompose_to_twin_cosets reads the global Q, not a parameter
decompose_to_twin_cosets(D, n, m) ==
    IF Len(D) # Shl1(m) THEN Raise(AssertionError)
    ELSE LET G_n_minus_1 == generate_subgroup(n - 1).val
         IN  Ok([k1 \in 1..(Shl1(m) \div Shl1(n)) |->
                    LET Q_k == CirclePoint_power(Q, 4 * (k1 - 1) + 1)
                    IN  generate_twin_coset(Q_k, G_n_minus_1)])

\* the evaluation vectors the model feeds the transform: a * [2^i mod p] plus
\* a spike b at one index (a = 1, b = 0, N = 8 is the notebook's evals)
EvalVectors(N) ==
    IF N = 0 THEN {<<>>}
    ELSE {[i \in 1..N |->
              FieldElement(a * FieldElement_pow(FieldElement(2), i - 1)
                           + (IF i = j THEN b ELSE 0))] :
          a \in 0..MaxScale, b \in 0..MaxSpike, j \in 1..N}

Init ==
    /\ pc = "start"
    /\ Q = NoPoint /\ logn = 0 /\ G = NoResult /\ Domain = NoResult
    /\ D_twin = <<>> /\ twin_n = 0 /\ twin_m = 0 /\ twin_cosets = NoResult
    /\ evals = <<>> /\ coefs = NoResult /\ final_evals = NoResult /\ reeval = <<>>
    /\ in_x = 0 /\ in_y = 0 /\ p1 = NoPoint /\ p2 = NoPoint /\ p3 = NoPoint /\ p_n = 0
    /\ D_halved = <<>> /\ Domain2 = <<>> /\ coefs2 = NoResult /\ final_evals2 = NoResult
    /\ twin_cosets2 = NoResult /\ gen_k = 0 /\ gen = NoPoint
    /\ f_a = 0 /\ f_b = 0 /\ f_r = NoResult

(* -------- the notebook's calls on constructor-built domains -------- *)
\* Q = CirclePoint(..); G = generate_subgroup(k); D = generate_standard_position_coset(Q, G)
BuildDomain ==
    /\ pc = "start"
    /\ \E q \in CirclePoints, k \in 0..MaxLogN :
          LET g == generate_subgroup(k) IN
          /\ Q' = q
          /\ logn' = k
          /\ G' = g
          /\ Domain' = IF g.err # NoError THEN g
                       ELSE Ok(generate_standard_position_coset(q, g.val))
    /\ pc' = "domain"
    /\ UNCHANGED <<otherVars, D_twin, twin_n, twin_m, twin_cosets, transformVars, pointVars>>

\* D_twin = generate_twin_coset(Q, generate_subgroup(logn - 1))
GenerateTwinCoset ==
    /\ pc = "domain"
    /\ Domain.err = NoError
    /\ logn >= 1
    /\ D_twin' = generate_twin_coset(Q, generate_subgroup(logn - 1).val)
    /\ pc' = "twin"
    /\ UNCHANGED <<otherVars, Q, logn, G, Domain, twin_n, twin_m, twin_cosets, transformVars, pointVars>>

\* twin_cosets = decompose_to_twin_cosets(D, n, m)
Decompose ==
    /\ pc = "domain"
    /\ Domain.err = NoError
    /\ \E m \in 1..MaxLogN :
          \E n \in 1..m :
             /\ twin_n' = n
             /\ twin_m' = m
             /\ twin_cosets' = decompose_to_twin_cosets(Domain.val, n, m)
    /\ pc' = "decomposed"
    /\ UNCHANGED <<otherVars, Q, logn, G, Domain, D_twin, transformVars, pointVars>>

\* coefs = circle_fft(evals, Domain)
CircleFft ==
    /\ pc = "domain"
    /\ Domain.err = NoError
    /\ \E v \in EvalVectors(Len(Domain.val)) :
          /\ evals' = v
          /\ coefs' = circle_fft(v, Domain.val)
    /\ pc' = "fft"
    /\ UNCHANGED <<otherVars, domainVars, final_evals, reeval, pointVars>>

\* final_evals = circle_ifft(coefs, Domain)
CircleIfft ==
    /\ pc = "fft"
    /\ coefs.err = NoError
    /\ final_evals' = circle_ifft(coefs.val, Domain.val)
    /\ pc' = "ifft"
    /\ UNCHANGED <<otherVars, domainVars, evals, coefs, reeval, pointVars>>

\* reeval = check_with_basis(coefs, Domain)
CheckWithBasis ==
    /\ pc = "ifft"
    /\ reeval' = check_with_basis(coefs.val, Domain.val)
    /\ pc' = "checked"
    /\ UNCHANGED <<otherVars, domainVars, evals, coefs, final_evals, pointVars>>

\* D_halved = halve_standard_position_coset_by_squaring_map(D)
Halve ==
    /\ pc = "domain"
    /\ Domain.err = NoError
    /\ D_halved' = halve_standard_position_coset_by_squaring_map(Domain.val)
    /\ pc' = "halved"
    /\ UNCHANGED <<domainVars, transformVars, pointVars, Domain2, coefs2, final_evals2,
                   twin_cosets2, gen_k, gen, f_a, f_b, f_r>>

Next ==
    \/ BuildDomain
    \/ Halve
    \/ GenerateTwinCoset
    \/ Decompose
    \/ CircleFft
    \/ CircleIfft
    \/ CheckWithBasis

Spec == Init /\ [][Next]_vars


(* -------- circle_fft / circle_ifft on caller-made vectors and domains -------- *)
G3 == generate_subgroup(3).val

\* the coset points the notebook uses, and the identity
NotebookPoints == {CirclePoint(13, 7), CirclePoint(24, 18), CirclePoint_identity}

\* a caller-made list of len points of q.G3, repeating after len(G3) entries
AdHocDomain(q, len) ==
    [i \in 1..len |-> CirclePoint_add(q, G3[((i - 1) % Len(G3)) + 1])]

SizeFft ==
    /\ pc = "start"
    /\ \E lv \in 0..MaxLen, ld \in 0..MaxLen, q \in NotebookPoints :
          \E v \in EvalVectors(lv) :
             /\ evals' = v
             /\ Domain' = Ok(AdHocDomain(q, ld))
             /\ coefs' = circle_fft(v, AdHocDomain(q, ld))
    /\ pc' = "size_fft"
    /\ UNCHANGED <<otherVars, Q, logn, G, D_twin, twin_n, twin_m, twin_cosets,
                   final_evals, reeval, pointVars>>

SizeIfft ==
    /\ pc = "start"
    /\ \E lv \in 0..MaxLen, ld \in 0..MaxLen, q \in NotebookPoints :
          \E v \in EvalVectors(lv) :
             /\ evals' = v
             /\ Domain' = Ok(AdHocDomain(q, ld))
             /\ final_evals' = circle_ifft(v, AdHocDomain(q, ld))
    /\ pc' = "size_ifft"
    /\ UNCHANGED <<otherVars, Q, logn, G, D_twin, twin_n, twin_m, twin_cosets,
                   coefs, reeval, pointVars>>

\* two caller-made domains of length len that agree on indices < len/2: the
\* second keeps the first half of q.G3 and ends with the first points of q2.G3
PairedDomain(q, q2, len) ==
    SubSeq(AdHocDomain(q, len), 1, len \div 2) \o SubSeq(AdHocDomain(q2, len), 1, len \div 2)

\* circle_fft(v, D) and circle_fft(v, D') on the paired domains
PairFft ==
    /\ pc = "start"
    /\ \E k \in 1..MaxPairLog, q \in NotebookPoints, q2 \in NotebookPoints :
          \E v \in EvalVectors(2 ^ k) :
             /\ evals' = v
             /\ Domain' = Ok(AdHocDomain(q, 2 ^ k))
             /\ Domain2' = PairedDomain(q, q2, 2 ^ k)
             /\ coefs' = circle_fft(v, AdHocDomain(q, 2 ^ k))
             /\ coefs2' = circle_fft(v, PairedDomain(q, q2, 2 ^ k))
    /\ pc' = "pair_fft"
    /\ UNCHANGED <<Q, logn, G, D_twin, twin_n, twin_m, twin_cosets, final_evals, reeval,
                   pointVars, D_halved, final_evals2, twin_cosets2, gen_k, gen,
                   f_a, f_b, f_r>>

\* circle_ifft(v, D) and circle_ifft(v, D') on the paired domains
PairIfft ==
    /\ pc = "start"
    /\ \E k \in 1..MaxPairLog, q \in NotebookPoints, q2 \in NotebookPoints :
          \E v \in EvalVectors(2 ^ k) :
             /\ evals' = v
             /\ Domain' = Ok(AdHocDomain(q, 2 ^ k))
             /\ Domain2' = PairedDomain(q, q2, 2 ^ k)
             /\ final_evals' = circle_ifft(v, AdHocDomain(q, 2 ^ k))
             /\ final_evals2' = circle_ifft(v, PairedDomain(q, q2, 2 ^ k))
    /\ pc' = "pair_ifft"
    /\ UNCHANGED <<Q, logn, G, D_twin, twin_n, twin_m, twin_cosets, coefs, reeval,
                   pointVars, D_halved, coefs2, twin_cosets2, gen_k, gen,
                   f_a, f_b, f_r>>
NextSize ==
    \/ SizeFft
    \/ SizeIfft
    \/ PairFft
    \/ PairIfft

SpecSize == Init /\ [][NextSize]_vars

(* -------- decompose_to_twin_cosets on two domains, one Q in scope -------- *)
\* twin_cosets = decompose_to_twin_cosets(D, n, m) and twin_cosets2 =
\* decompose_to_twin_cosets(D', n, m), D' = q2.G_logn built from another point
DecomposePair ==
    /\ pc = "domain"
    /\ Domain.err = NoError
    /\ \E m \in 1..MaxLogN, q2 \in NotebookPoints :
          \E n \in 1..m :
             /\ twin_n' = n
             /\ twin_m' = m
             /\ Domain2' = generate_standard_position_coset(q2, G.val)
             /\ twin_cosets' = decompose_to_twin_cosets(Domain.val, n, m)
             /\ twin_cosets2' =
                   decompose_to_twin_cosets(generate_standard_position_coset(q2, G.val), n, m)
    /\ pc' = "decomposed_pair"
    /\ UNCHANGED <<Q, logn, G, Domain, D_twin, transformVars, pointVars, D_halved,
                   coefs2, final_evals2, gen_k, gen, f_a, f_b, f_r>>

NextDecompose ==
    \/ BuildDomain
    \/ DecomposePair

SpecDecompose == Init /\ [][NextDecompose]_vars
(* -------- CirclePoint construction and methods -------- *)
\* p1 = CirclePoint(FieldElement(x), FieldElement(y))
Construct ==
    /\ pc = "start"
    /\ \E x \in 0..(MOD - 1), y \in 0..(MOD - 1) :
          /\ in_x' = x
          /\ in_y' = y
          /\ p1' = CirclePoint(FieldElement(x), FieldElement(y))
    /\ pc' = "point"
    /\ UNCHANGED <<otherVars, domainVars, transformVars, p2, p3, p_n>>

\* p3 = p1.add(p2)
PointAdd ==
    /\ pc = "point"
    /\ IsPoint(p1)
    /\ \E q \in CirclePoints :
          /\ p2' = q
          /\ p3' = CirclePoint_add(p1, q)
    /\ pc' = "add"
    /\ UNCHANGED <<otherVars, domainVars, transformVars, in_x, in_y, p1, p_n>>

\* p3 = p1.double()
PointDouble ==
    /\ pc = "point"
    /\ IsPoint(p1)
    /\ p3' = CirclePoint_double(p1)
    /\ pc' = "double"
    /\ UNCHANGED <<otherVars, domainVars, transformVars, in_x, in_y, p1, p2, p_n>>

\* p3 = p1.inverse()
PointInverse ==
    /\ pc = "point"
    /\ IsPoint(p1)
    /\ p3' = CirclePoint_inverse(p1)
    /\ pc' = "inverse"
    /\ UNCHANGED <<otherVars, domainVars, transformVars, in_x, in_y, p1, p2, p_n>>

\* p3 = p1.power(n)
PointPower ==
    /\ pc = "point"
    /\ IsPoint(p1)
    /\ \E n \in (-1)..MaxExp :
          /\ p_n' = n
          /\ p3' = CirclePoint_power(p1, n)
    /\ pc' = "power"
    /\ UNCHANGED <<otherVars, domainVars, transformVars, in_x, in_y, p1, p2>>

\* gen = get_nth_generator(k)
NthGenerator ==
    /\ pc = "start"
    /\ \E k \in 0..(MaxLogN + 1) :
          /\ gen_k' = k
          /\ gen' = get_nth_generator(k)
    /\ pc' = "generator"
    /\ UNCHANGED <<domainVars, transformVars, pointVars, D_halved, Domain2, coefs2,
                   final_evals2, twin_cosets2, f_a, f_b, f_r>>
NextPoint ==
    \/ Construct
    \/ PointAdd
    \/ PointDouble
    \/ PointInverse
    \/ PointPower

SpecPoint == Init /\ [][NextPoint]_vars


(* -------- FieldElement inversion and division -------- *)
\* f_r = FieldElement(a).inv()
FieldInv ==
    /\ pc = "start"
    /\ \E a \in 0..(MOD - 1) :
          /\ f_a' = FieldElement(a)
          /\ f_r' = FieldElement_inv_call(FieldElement(a))
    /\ pc' = "inv"
    /\ UNCHANGED <<domainVars, transformVars, pointVars, D_halved, Domain2, coefs2,
                   final_evals2, twin_cosets2, gen_k, gen, f_b>>

\* f_r = FieldElement(a) / FieldElement(b)
FieldDiv ==
    /\ pc = "start"
    /\ \E a \in 0..(MOD - 1), b \in 0..(MOD - 1) :
          /\ f_a' = FieldElement(a)
          /\ f_b' = FieldElement(b)
          /\ f_r' = FieldElement_truediv_call(FieldElement(a), FieldElement(b))
    /\ pc' = "div"
    /\ UNCHANGED <<domainVars, transformVars, pointVars, D_halved, Domain2, coefs2,
                   final_evals2, twin_cosets2, gen_k, gen>>

NextField ==
    \/ FieldInv
    \/ FieldDiv
    \/ NthGenerator

SpecField == Init /\ [][NextField]_vars
(* ======================= properties ======================= *)
IsPowerOfTwo(N) == \E k \in 0..N : N = 2 ^ k

\* P has exact order 2^k in the circle group
HasOrderPow2(P, k) ==
    /\ CirclePoint_power(P, 2 ^ k) = CirclePoint_identity
    /\ k >= 1 => CirclePoint_power(P, 2 ^ (k - 1)) # CirclePoint_identity

\* J(pt) = (x, -y)
Involution(pt) == [x |-> pt.x, y |-> FieldElement_neg(pt.y)]

\* D[N-1-i] = J(D[i]) for every i < N/2 (list indices from 0)
PairedByInvolution(D) ==
    \A i \in 1..(Len(D) \div 2) : D[Len(D) + 1 - i] = Involution(D[i])

\* C1: whenever circle_fft(v, D) returned coefficients on a constructor-built
\* domain, circle_ifft of them over the same domain returns exactly v.
C1_RoundTrip ==
    pc \in {"ifft", "checked"} => final_evals = Ok(evals)

C1_Witness ==
    /\ pc = "ifft"
    /\ logn = 4
    /\ \E i \in 1..Len(evals) : evals[i] # 0
    /\ coefs.val # evals
    /\ final_evals = Ok(evals)

\* C2 (as claimed): for n >= 1, re-evaluating the coefficients of circle_fft in
\* the basis b_j at the points of D gives back the evaluation vector.
C2_BasisCrossCheck ==
    (pc = "checked" /\ logn >= 1) => reeval = evals

\* C3: Q = (24,18), n = 3, evals = [1,2,4,8,16,1,2,4] gives the recorded
\* coefficients [28,16,16,27,20,12,28,27].
C3_ReferenceVector ==
    (/\ pc \in {"fft", "ifft", "checked"}
     /\ Q = [x |-> 24, y |-> 18]
     /\ logn = 3
     /\ evals = <<1, 2, 4, 8, 16, 1, 2, 4>>)
    => coefs = Ok(<<28, 16, 16, 27, 20, 12, 28, 27>>)

C3_Witness ==
    /\ pc = "fft"
    /\ Q = [x |-> 24, y |-> 18]
    /\ logn = 3
    /\ evals = <<1, 2, 4, 8, 16, 1, 2, 4>>
    /\ coefs.val = <<28, 16, 16, 27, 20, 12, 28, 27>>

\* C4 (as claimed): circle_fft and circle_ifft signal the size error exactly
\* when the lengths differ or the length is not a power of two N >= 1.
C4_SizeChecking ==
    /\ pc = "size_fft" =>
          (coefs.err = FftSizeError
             <=> (Len(evals) # Len(Domain.val) \/ ~IsPowerOfTwo(Len(evals))))
    /\ pc = "size_ifft" =>
          (final_evals.err = IfftSizeError
             <=> (Len(evals) # Len(Domain.val) \/ ~IsPowerOfTwo(Len(evals))))

\* C5 (as claimed): on a domain built by the constructors circle_fft never
\* signals ZeroDivisionError.
C5_NoDivisionByZero ==
    pc = "fft" => coefs.err # ZeroDivisionError

\* C5 (amended): on D = Q.G_n circle_fft signals ZeroDivisionError exactly
\* when n >= 1 and Q is an element of generate_subgroup(n); for every other
\* Q and n it returns coefficients.
C5_DivisionByZeroIffInSubgroup ==
    pc = "fft" =>
        /\ coefs.err = ZeroDivisionError <=> (logn >= 1 /\ Q \in SeqToSet(G.val))
        /\ coefs.err \in {NoError, ZeroDivisionError}

C5_Witness ==
    /\ pc = "fft"
    /\ logn = 4
    /\ Q \notin SeqToSet(G.val)
    /\ coefs.err = NoError
    /\ Len(coefs.val) = 16

C7_TwinEqualsStandard ==
    pc = "twin" => SeqToSet(D_twin) = SeqToSet(Domain.val)

\* C7 (amended): the two point sets are equal exactly when Q has exact order
\* 2^(n+1).
C7_TwinEqualsStandardIffOrder ==
    pc = "twin" =>
        (SeqToSet(D_twin) = SeqToSet(Domain.val) <=> HasOrderPow2(Q, logn + 1))

C7_Witness ==
    /\ pc = "twin"
    /\ logn = 3
    /\ Q = [x |-> 13, y |-> 7]
    /\ D_twin # Domain.val
    /\ SeqToSet(D_twin) = SeqToSet(Domain.val)
    /\ Cardinality(SeqToSet(D_twin)) = 8

\* decompose_to_twin_cosets(D, n, m) returned 2^(m-n) lists, the k-th equal to
\* generate_twin_coset(Q^(4k+1), G_(n-1)) and of length 2^n, pairwise
\* disjoint, with union the point set of D
DecomposePartitions ==
    /\ twin_cosets.err = NoError
    /\ Len(twin_cosets.val) = 2 ^ (twin_m - twin_n)
    /\ \A k \in 1..Len(twin_cosets.val) :
          /\ twin_cosets.val[k] =
                generate_twin_coset(CirclePoint_power(Q, 4 * (k - 1) + 1),
                                    generate_subgroup(twin_n - 1).val)
          /\ Len(twin_cosets.val[k]) = 2 ^ twin_n
    /\ \A k, l \in 1..Len(twin_cosets.val) :
          k # l => SeqToSet(twin_cosets.val[k]) \cap SeqToSet(twin_cosets.val[l]) = {}
    /\ UNION {SeqToSet(twin_cosets.val[k]) : k \in 1..Len(twin_cosets.val)}
          = SeqToSet(Domain.val)

\* C8 (as claimed): for every coset point Q and 1 <= n <= m <= 4 the
\* decomposition of D = Q.G_m partitions D into 2^(m-n) twin-cosets.
C8_DecomposePartitions ==
    (pc = "decomposed" /\ twin_m = logn /\ twin_m <= 4) => DecomposePartitions

\* C8 (amended): the same for every Q of exact order 2^(m+1).
C8_DecomposePartitionsForOrder ==
    (pc = "decomposed" /\ twin_m = logn /\ HasOrderPow2(Q, twin_m + 1))
    => DecomposePartitions

C8_Witness ==
    /\ pc = "decomposed"
    /\ Q = [x |-> 13, y |-> 7]
    /\ twin_n = 2 /\ twin_m = 3 /\ logn = 3
    /\ HasOrderPow2(Q, 4)
    /\ twin_cosets.val =
          << <<[x |-> 13, y |-> 7], [x |-> 18, y |-> 24],
               [x |-> 13, y |-> 24], [x |-> 18, y |-> 7]>>,
             <<[x |-> 24, y |-> 13], [x |-> 7, y |-> 18],
               [x |-> 24, y |-> 18], [x |-> 7, y |-> 13]>> >>
    /\ DecomposePartitions

\* C9: generate_subgroup(k) is a list of exactly 2^k pairwise-distinct points
\* that starts with the identity (1,0) and is closed under add.
C9_SubgroupClosed ==
    (pc # "start" /\ G.err = NoError) =>
        /\ Len(G.val) = 2 ^ logn
        /\ \A i, j \in 1..Len(G.val) : i # j => G.val[i] # G.val[j]
        /\ G.val[1] = [x |-> 1, y |-> 0]
        /\ \A i, j \in 1..Len(G.val) :
              CirclePoint_add(G.val[i], G.val[j]) \in SeqToSet(G.val)

C9_Witness ==
    /\ pc = "domain"
    /\ logn = 5
    /\ Len(G.val) = 32
    /\ G.val[2] = [x |-> 2, y |-> 11]
    /\ CirclePoint_add(G.val[2], G.val[32]) = G.val[1]

\* C10: CirclePoint(x, y) succeeds, with exactly the point (x, y), if and only
\* if x^2 + y^2 = 1 mod p, and raises otherwise; add, double, inverse and
\* power of constructed points never raise that error.
C10_ConstructionValidated ==
    /\ pc # "start" =>
          /\ IsPoint(p1) <=> (in_x * in_x + in_y * in_y) % MOD = 1
          /\ IsPoint(p1) => p1 = [x |-> in_x, y |-> in_y]
          /\ ~IsPoint(p1) => p1 = PointNotOnCircle
    /\ pc \in {"add", "double", "inverse", "power"} =>
          /\ p3 # PointNotOnCircle
          /\ IsPoint(p3) \/ (pc = "power" /\ p_n < 0)
          /\ IsPoint(p3) => (p3.x * p3.x + p3.y * p3.y) % MOD = 1

C10_Witness ==
    /\ pc = "add"
    /\ in_x = 13 /\ in_y = 7
    /\ p1 = [x |-> 13, y |-> 7]
    /\ p2 = [x |-> 30, y |-> 0]
    /\ p3 = [x |-> 18, y |-> 24]

\* C11: for n >= 1 the halved coset of D = Q.G_n has exactly len(D)/2
\* pairwise-distinct points, is as a set the image of D under double(), every
\* image having exactly two preimages in D, and is listed in strictly
\* ascending order of (x.value, y.value).
C11_HalvingBySquaringMap ==
    (pc = "halved" /\ logn >= 1) =>
        /\ 2 * Len(D_halved) = Len(Domain.val)
        /\ Len(D_halved) = 2 ^ (logn - 1)
        /\ \A i, j \in 1..Len(D_halved) : i # j => D_halved[i] # D_halved[j]
        /\ SeqToSet(D_halved) =
              {CirclePoint_double(Domain.val[i]) : i \in 1..Len(Domain.val)}
        /\ \A h \in 1..Len(D_halved) :
              Cardinality({i \in 1..Len(Domain.val) :
                              CirclePoint_double(Domain.val[i]) = D_halved[h]}) = 2
        /\ \A i \in 1..(Len(D_halved) - 1) : KeyLess(D_halved[i], D_halved[i + 1])

C11_Witness ==
    /\ pc = "halved"
    /\ logn = 3
    /\ Q = [x |-> 13, y |-> 7]
    /\ D_halved = <<[x |-> 4, y |-> 4], [x |-> 4, y |-> 27],
                    [x |-> 27, y |-> 4], [x |-> 27, y |-> 27]>>

\* C12: where 2^k divides p+1, get_nth_generator(k) is
\* find_generator().power((p+1)/2^k) and has exact order 2^k; for every other
\* k it fails with the ValueError of the subgroup size.
C12_GeneratorOrder ==
    pc = "generator" =>
        IF (MOD + 1) % (2 ^ gen_k) = 0
        THEN /\ gen = CirclePoint_power(find_generator, (MOD + 1) \div (2 ^ gen_k))
             /\ CirclePoint_power(gen, 2 ^ gen_k) = [x |-> 1, y |-> 0]
             /\ gen_k >= 1 => CirclePoint_power(gen, 2 ^ (gen_k - 1)) # [x |-> 1, y |-> 0]
        ELSE gen = InvalidArgument

C12_Witness ==
    /\ pc = "generator"
    /\ gen_k = 5
    /\ gen = [x |-> 2, y |-> 11]
    /\ CirclePoint_power(gen, 16) = [x |-> 30, y |-> 0]

\* C13: P.power(n) for n >= 0 is the n-fold product of P by repeated add,
\* stated by induction on n over every exponent of the range: power(0) is the
\* identity and power(n) is power(n - 1).add(P); power(p+1) is the identity
\* and power(p) is P.inverse(); for n < 0 power raises the ValueError of the
\* negative exponent.
C13_PowerIsRepeatedAdd ==
    pc = "power" =>
        IF p_n < 0 THEN p3 = NegativeExponent
        ELSE /\ p_n = 0 => p3 = [x |-> 1, y |-> 0]
             /\ p_n >= 1 => p3 = CirclePoint_add(CirclePoint_power(p1, p_n - 1), p1)
             /\ p_n = MOD + 1 => p3 = [x |-> 1, y |-> 0]
             /\ p_n = MOD => p3 = CirclePoint_inverse(p1)

C13_Witness ==
    /\ pc = "power"
    /\ p1 = [x |-> 13, y |-> 7]
    /\ p_n = 31
    /\ p3 = [x |-> 13, y |-> 24]

\* C14: for a in 1..p-1, a * a.inv() is one and a.inv() is in [0, p); for
\* a = 0, inv() and every division by a raise ZeroDivisionError and give no
\* value; a division by a nonzero b gives the c with c * b = a.
C14_FieldInversion ==
    /\ pc = "inv" =>
          IF f_a = 0 THEN f_r.err = ZeroDivisionError /\ f_r.val = <<>>
          ELSE /\ f_r.err = NoError
               /\ f_r.val \in 0..(MOD - 1)
               /\ FieldElement_mul(f_a, f_r.val) = 1
    /\ pc = "div" =>
          IF f_b = 0 THEN f_r.err = ZeroDivisionError /\ f_r.val = <<>>
          ELSE /\ f_r.err = NoError
               /\ f_r.val \in 0..(MOD - 1)
               /\ (f_r.val * f_b) % MOD = f_a

C14_Witness ==
    /\ pc = "div"
    /\ f_a = 5 /\ f_b = 10
    /\ f_r = Ok(16)

\* the two domains have the same length and the same points at indices < N/2
AgreeOnFirstHalf(D, D2) ==
    /\ Len(D) = Len(D2)
    /\ \A i \in 1..(Len(D) \div 2) : D[i] = D2[i]

\* C15: for a power-of-two N >= 2, a vector v of length N and two domains of
\* length N that agree on the indices below N/2, circle_fft(v, D) and
\* circle_fft(v, D') have the same outcome (coefficients or error), and so
\* have circle_ifft(v, D) and circle_ifft(v, D').
C15_FirstHalfOnly ==
    /\ (pc = "pair_fft" /\ AgreeOnFirstHalf(Domain.val, Domain2)) => coefs = coefs2
    /\ (pc = "pair_ifft" /\ AgreeOnFirstHalf(Domain.val, Domain2))
          => final_evals = final_evals2

C15_Witness ==
    /\ pc = "pair_fft"
    /\ evals = <<1, 2, 4, 8, 16, 1, 2, 4>>
    /\ Domain.val[1] = [x |-> 13, y |-> 7]
    /\ Domain2[5] = [x |-> 24, y |-> 18]
    /\ Domain.val[5] # Domain2[5]
    /\ AgreeOnFirstHalf(Domain.val, Domain2)
    /\ coefs.err = NoError
    /\ coefs2 = coefs

\* C16: with n, m and the coset point Q in scope fixed, two domains of the
\* same length (the second built from another coset point) give the identical
\* outcome of decompose_to_twin_cosets; the outcome is the one a list of
\* len(D) identity points gives, and the call fails exactly when
\* len(D) # 2^m.
C16_DecomposeIgnoresPoints ==
    (pc = "decomposed_pair" /\ Len(Domain.val) = Len(Domain2)) =>
        /\ twin_cosets = twin_cosets2
        /\ twin_cosets =
              decompose_to_twin_cosets([i \in 1..Len(Domain.val) |-> [x |-> 1, y |-> 0]],
                                       twin_n, twin_m)
        /\ twin_cosets.err = AssertionError <=> Len(Domain.val) # 2 ^ twin_m
        /\ twin_cosets.err \in {NoError, AssertionError}

C16_Witness ==
    /\ pc = "decomposed_pair"
    /\ Q = [x |-> 13, y |-> 7]
    /\ twin_n = 2 /\ twin_m = 3
    /\ Len(Domain.val) = 8 /\ Len(Domain2) = 8
    /\ Domain.val[1] = [x |-> 13, y |-> 7]
    /\ Domain2[1] = [x |-> 1, y |-> 0]
    /\ SeqToSet(Domain.val) \cap SeqToSet(Domain2) = {}
    /\ twin_cosets.err = NoError
    /\ twin_cosets2 = twin_cosets

====
